---- MODULE Spec2Model ----
(***************************************************************************)
(* AstroStocks: the cache coordination of the request handlers            *)
(*   astrostocks-backend/app/api/routes/analyze.py, predict.py, transits.py *)
(*   astrostocks-backend/app/services/prediction_cache_service.py          *)
(*   astrostocks-backend/app/models/models.py                              *)
(* and the pure stages of the analysis                                     *)
(*   app/services/astrology_engine.py, app/services/ai_service.py,         *)
(* and the rate limiter of app/services/alpha_vantage_service.py.          *)
(*                                                                         *)
(* Every request handler runs in its own SQLAlchemy session               *)
(* (autocommit=False, autoflush=False) against one PostgreSQL database     *)
(* (READ COMMITTED): a query sees what is committed when it runs, pending  *)
(* objects reach the tables at db.commit(), and a rollback drops what is   *)
(* pending.  One action of the model is one database statement (a query,   *)
(* or a flush-and-commit) together with the local code around it.          *)
(* The handlers are coroutines without an await: one process runs them one  *)
(* after the other, and the handlers of different worker processes of the  *)
(* service, which share the database, interleave between statements.       *)
(***************************************************************************)
EXTENDS Integers, Sequences, FiniteSets, TLC

\* ---------------------------------------------------------------- bounds
MaxRequests == 3        \* requests issued in one behaviour
MaxWorkers == 2         \* worker processes: requests handled at the same time
MaxDay == 2             \* calendar days the clock runs through

Workers == 1..MaxWorkers
Days == 1..MaxDay
Endpoints == {"basic", "enhanced"}
Sectors == {"Banking", "Technology"}   \* sectors the analysis predicts
None == [none |-> TRUE]           \* Python's None, where a record may stand

VARIABLES
    today,      \* date.today()
    live,       \* table sector_predictions
    archive,    \* table sector_archive
    cache,      \* table analyze_cache
    req,        \* per worker, the request it is handling: position and locals
    issued,     \* number of requests issued so far
    done,       \* the outcome of the request that has just returned, or None
    okResp,     \* history: per date, responses of completed basic requests
    prediction_cache,   \* table prediction_cache
    predict_req,        \* per worker, the /predict request it is handling
    transits,           \* table transits
    transit_req,        \* per worker, the /transits request it is handling
    call,       \* the arguments of a call of a function of the analysis
    ret,        \* what the call returned, or None before it returns
    rate_limiter,   \* the RateLimiter of the AlphaVantageService
    clock,          \* time.time(), in seconds
    let_through     \* history: the times at which wait_if_needed returned

vars == <<today, live, archive, cache, req, issued, done, okResp,
          prediction_cache, predict_req, transits, transit_req, call, ret,
          rate_limiter, clock, let_through>>

\* What the handlers of /analyze, of /predict, of /transits and the functions
\* of the analysis leave alone.
OutsideAnalyze == <<prediction_cache, predict_req, transits, transit_req, call, ret,
                    rate_limiter, clock, let_through>>
OutsidePredict == <<today, live, archive, cache, req, done, okResp,
                    transits, transit_req, call, ret,
                    rate_limiter, clock, let_through>>
OutsideTransits == <<today, live, archive, cache, req, done, okResp,
                     prediction_cache, predict_req, call, ret,
                     rate_limiter, clock, let_through>>
OutsideEngine == <<today, live, archive, cache, req, issued, done, okResp,
                   prediction_cache, predict_req, transits, transit_req,
                   rate_limiter, clock, let_through>>
OutsideRateLimiter == <<today, live, archive, cache, req, issued, done, okResp,
                        prediction_cache, predict_req, transits, transit_req,
                        call, ret>>

\* ------------------------------------------------- payloads and responses
\* datetime.utcnow().isoformat() / datetime.isoformat()
isoformat(t) == <<"iso", t>>

\* datetime.fromisoformat(s), also pydantic's parsing of a datetime field
fromisoformat(s) == IF s[1] = "iso" THEN <<"datetime", s[2]>> ELSE s

\* The sector predictions of the analysis run stamped t: one per sector,
\* the run's enrichment text standing for the run-specific content.
sector_predictions(t) == {[sector |-> s, ai_insights |-> t] : s \in Sectors}

\* AnalyzeResponse(**d): the timestamp field is validated into a datetime
AnalyzeResponse(d) ==
    [sector_predictions |-> d.sector_predictions,
     timestamp |-> fromisoformat(d.timestamp)]

\* PredictionCacheService._serialize_datetime
_serialize_datetime(obj) ==
    [sector_predictions |-> obj.sector_predictions,
     timestamp |-> IF obj.timestamp[1] = "datetime"
                   THEN isoformat(obj.timestamp[2]) ELSE obj.timestamp]

\* ------------------------------------------------------ analyze_cache table
CacheRows(c, analysis_date, endpoint_type) ==
    {row \in c : row.analysis_date = analysis_date
                 /\ row.endpoint_type = endpoint_type}

\* query(AnalyzeCache).filter(...).first()
first(rows) == IF rows = {} THEN None
               ELSE CHOOSE row \in rows : \A o \in rows : row.id <= o.id

\* Variant: the lookup filters on the date only.
get_analyze_cache_by_date(c, analysis_date, endpoint_type) ==
    LET cached == first({row \in c : row.analysis_date = analysis_date})
    IN  IF cached # None THEN cached.response_data ELSE None

\* PredictionCacheService.get_analyze_cache
get_analyze_cache(c, analysis_date, endpoint_type) ==
    LET cached == first(CacheRows(c, analysis_date, endpoint_type))
    IN  IF cached # None THEN cached.response_data ELSE None

\* Variant: the table has no unique constraint.
uq_analyze_cache_absent(c, analysis_date, endpoint_type) == TRUE

\* UniqueConstraint('analysis_date', 'endpoint_type'): an INSERT of a second
\* row for the key is refused
uq_analyze_cache_date_type(c, analysis_date, endpoint_type) ==
    CacheRows(c, analysis_date, endpoint_type) = {}

\* ---------------------------------------------------- sector_archive table
\* The primary keys (Column(Integer, primary_key=True)) are opaque and the
\* code only compares them: a row's key is made of the number of the request
\* that inserts it, which numbers the rows as a sequence would, without
\* depending on the order of the commits.
RowsPerRequest == Cardinality(Sectors)

\* cached_predictions_map.get(old_pred.sector, {}) of _archive_old_predictions
cached_pred(cached_data, sector) ==
    IF cached_data = None THEN {}
    ELSE {p \in cached_data.sector_predictions : p.sector = sector}

\* Variant: the entries are dated by the creation of the rows.
archive_entries_created(old_predictions, cached_data, analysis_date, r) ==
    {[id |-> <<r, old_pred.id>>,
      sector |-> old_pred.sector,
      reason |-> old_pred.reason,
      ai_insights |-> IF cached_pred(cached_data, old_pred.sector) = {} THEN 0
                      ELSE (CHOOSE p \in cached_pred(cached_data, old_pred.sector)
                                : TRUE).ai_insights,
      original_created_at |-> old_pred.created_at,
      archive_date |-> old_pred.created_at,
      of |-> old_pred.id,
      for_date |-> old_pred.for_date,
      by |-> r] : old_pred \in old_predictions}

\* The SectorArchive entries _archive_old_predictions adds for the rows it
\* read; `of', `for_date' and `by' are history fields (the copied row, the
\* analysis date of the request that inserted it, the archiving request).
archive_entries(old_predictions, cached_data, analysis_date, r) ==
    {[id |-> <<r, old_pred.id>>,
      sector |-> old_pred.sector,
      reason |-> old_pred.reason,
      ai_insights |-> IF cached_pred(cached_data, old_pred.sector) = {} THEN 0
                      ELSE (CHOOSE p \in cached_pred(cached_data, old_pred.sector)
                                : TRUE).ai_insights,
      original_created_at |-> old_pred.created_at,
      archive_date |-> analysis_date,
      of |-> old_pred.id,
      for_date |-> old_pred.for_date,
      by |-> r] : old_pred \in old_predictions}

\* Variant: the entries are added to the session and never committed, so
\* that the rollback of a failing request drops them.
commit_archive_pending(table, entries) == table

\* _archive_old_predictions 75-78: db.add(archive_entry) for each entry, then
\* db.commit(): the entries are in the table from here on
commit_archive(table, entries) == table \cup entries

\* ------------------------------------------------ sector_predictions table
\* Variant: only the first of the rows read is deleted.
delete_first_prediction(table, old_predictions) ==
    table \ {p \in old_predictions : \A o \in old_predictions : p.id <= o.id}

\* analyze_market 159-161: db.delete(old_pred) for each row read, then
\* db.commit()
delete_predictions(table, old_predictions) == table \ old_predictions

\* Position of the sector's prediction in analysis_result["sector_predictions"]
SectorRank(s) == IF s = "Banking" THEN 0 ELSE 1

\* The SectorPrediction rows a run adds (created_at is the server's now());
\* `for_date' is a history field: the analysis date of the inserting request.
new_predictions(result, r, now, analysis_date) ==
    {[id |-> RowsPerRequest * (r - 1) + SectorRank(p.sector) + 1,
      sector |-> p.sector,
      reason |-> p.ai_insights,
      created_at |-> now,
      for_date |-> analysis_date] : p \in result.sector_predictions}

\* --------------------------------------------------------------- requests
\* A worker without a request.  `id' numbers the requests in the order of
\* their arrival.  History fields: llm, the enrichment calls made; steps, the
\* steps taken; pre, the ids of the rows live at arrival; after, okResp of the
\* date at arrival; archived, the number of rows handed to the archive;
\* alone, of a hard refresh: no other request was handled meanwhile; raced,
\* of a request without hard refresh: another one missed the same key
\* meanwhile; no_transits: the caller gave no transits and the ephemeris
\* returned none.
NoResp == [first |-> None, last |-> None, hard |-> None]

\* What a request carries besides hard_refresh: stocks or none, transits or
\* none (AnalyzeRequest.stocks, AnalyzeRequest.transits).  The handlers read
\* them after the cache lookup only; `body' is a history field that keeps
\* them for a request answered from the cache.
RequestBodies == [stocks : BOOLEAN, transits : BOOLEAN]
NoBody == [stocks |-> FALSE, transits |-> FALSE]

Idle ==
    [pc |-> "idle", id |-> 0, endpoint |-> "basic", hard_refresh |-> FALSE,
     analysis_date |-> 0, cached_data |-> None, old_predictions |-> {},
     analysis_result |-> None, existing |-> None,
     llm |-> 0, steps |-> <<>>, pre |-> {}, after |-> NoResp,
     archived |-> 0, alone |-> TRUE, raced |-> FALSE, no_transits |-> FALSE,
     body |-> NoBody]

PcInFlight == {"archive_query", "archive_commit", "recompute", "delete_query",
               "delete_commit", "store", "cache_delete", "cache_delete_commit",
               "save_query", "save_commit"}

InFlight(w) == req[w].pc \in PcInFlight

\* A worker without a /predict request, and one without a /transits request
IdlePredict ==
    [pc |-> "idle", id |-> 0, prediction_date |-> 0, existing |-> None]

IdleTransits ==
    [pc |-> "idle", id |-> 0, target_date |-> 0, hard_refresh |-> FALSE,
     calculated |-> {}, deleted |-> {}]
IsHard(q) == q.endpoint = "basic" /\ q.hard_refresh

\* The handler returns `response' with `status' ("ok", or the HTTP error
\* "error" 500, "unavailable" 503, "bad_request" 400) from position q.pc;
\* `detail' names the exception behind an error.
Outcome(q, status, response, detail) ==
    [id |-> q.id, endpoint |-> q.endpoint, hard_refresh |-> q.hard_refresh,
     analysis_date |-> q.analysis_date, status |-> status,
     response |-> response, detail |-> detail, at |-> q.pc, llm |-> q.llm,
     steps |-> q.steps, pre |-> q.pre, after |-> q.after,
     archived |-> q.archived, alone |-> q.alone, raced |-> q.raced,
     no_transits |-> q.no_transits, body |-> q.body]

\* The tables of /analyze are empty and no request is being handled.
InitAnalyze ==
    /\ today = 1
    /\ live = {}
    /\ archive = {}
    /\ cache = {}
    /\ req = [w \in Workers |-> Idle]
    /\ issued = 0
    /\ done = None
    /\ okResp = [d \in Days |-> NoResp]

\* ... those of /predict and of /transits as well, and no function of the
\* analysis has been called.
InitPredict ==
    /\ prediction_cache = {}
    /\ predict_req = [w \in Workers |-> IdlePredict]

InitTransits ==
    /\ transits = {}
    /\ transit_req = [w \in Workers |-> IdleTransits]

InitEngine ==
    /\ call = None
    /\ ret = None

\* AlphaVantageService.__init__: RateLimiter(calls=5, period=60)
RateLimitCalls == 5
RateLimitPeriod == 60

InitRateLimiter ==
    /\ rate_limiter = [calls |-> RateLimitCalls, period |-> RateLimitPeriod,
                       call_times |-> <<>>]
    /\ clock = 0
    /\ let_through = <<>>

Init == InitAnalyze /\ InitPredict /\ InitTransits /\ InitEngine /\ InitRateLimiter

\* The calendar day changes.
Tick ==
    /\ today < MaxDay
    /\ today' = today + 1
    /\ done' = None
    /\ UNCHANGED <<live, archive, cache, req, issued, okResp>>
    /\ UNCHANGED OutsideAnalyze

\* ----------------------------------------------------------------- actions
\* History: some other worker is handling a hard refresh of date d.
HardOthers(w, d) ==
    \E v \in Workers \ {w} :
        InFlight(v) /\ IsHard(req[v]) /\ req[v].analysis_date = d

\* analyze.py 178-183 (basic) and 330 (enhanced): the value handed to the
\* caller after a recomputation
ResponseOf(q) ==
    IF q.endpoint = "basic" THEN AnalyzeResponse(q.analysis_result)
    ELSE q.analysis_result

\* analyze.py 119 (basic) and 247 (enhanced): the value handed to the caller
\* on a cache hit
CachedResponse(endpoint, cached_result) ==
    IF endpoint = "basic" THEN AnalyzeResponse(cached_result) ELSE cached_result

\* Variant: a cached analysis is cut down to the sectors of the stocks the
\* request carries.
hit_response_for_stocks(endpoint, cached_result, body) ==
    IF body.stocks
    THEN CachedResponse(endpoint,
             [cached_result EXCEPT !.sector_predictions =
                 {p \in @ : SectorRank(p.sector) = 0}])
    ELSE CachedResponse(endpoint, cached_result)

\* analyze.py 116-119 and 244-247: the answer to a request with `body' that
\* finds cached_result under its key
hit_response(endpoint, cached_result, body) ==
    CachedResponse(endpoint, cached_result)

\* Variant: the live rows are not deleted.
AfterRecomputeKeep(q) == "store"

\* analyze.py 157: after the analysis, a hard refresh deletes the live rows
AfterRecompute(q) == IF IsHard(q) THEN "delete_query" ELSE "store"

\* analyze.py 186: after storing the predictions, a hard refresh deletes the
\* old cache entry
AfterStore(q) == IF IsHard(q) THEN "cache_delete" ELSE "save_query"

\* A request arrives at the first idle worker.  analyze_market 105-127 and
\* analyze_market_enhanced 236-250: the date is read and the cache looked
\* up; a hard refresh skips the lookup and enters _archive_old_predictions,
\* whose first statement (line 37) reads the basic cache entry of the date.
\* hard_refresh is read by analyze_market only (line 108).
Begin(w, endpoint, hard_refresh) ==
    /\ req[w].pc = "idle"
    /\ \A v \in Workers : v < w => req[v].pc # "idle"
    /\ issued < MaxRequests
    /\ endpoint = "enhanced" => ~hard_refresh
    /\ issued' = issued + 1
    /\ \E body \in RequestBodies :
       LET cached_result == get_analyze_cache(cache, today, endpoint)
           others == {v \in Workers : InFlight(v)}
           rivals == {v \in others : /\ ~IsHard(req[v])
                                     /\ req[v].endpoint = endpoint
                                     /\ req[v].analysis_date = today}
           q == [Idle EXCEPT !.id = issued + 1,
                             !.endpoint = endpoint,
                             !.hard_refresh = hard_refresh,
                             !.analysis_date = today,
                             !.pre = {p.id : p \in live},
                             !.after = IF endpoint = "basic" /\ ~hard_refresh
                                       THEN okResp[today] ELSE NoResp]
           \* the requests in flight have met one more
           met == [v \in Workers |->
                     IF v \in rivals /\ ~hard_refresh
                     THEN [req[v] EXCEPT !.raced = TRUE]
                     ELSE IF v \in others /\ IsHard(req[v])
                     THEN [req[v] EXCEPT !.alone = FALSE]
                     ELSE req[v]]
       IN  IF IsHard(q)
           THEN /\ req' = [met EXCEPT ![w] =
                      [q EXCEPT !.pc = "archive_query",
                                !.alone = others = {},
                                !.cached_data = get_analyze_cache(cache, today, "basic")]]
                /\ done' = None
                /\ okResp' = [okResp EXCEPT ![today] = NoResp]
           ELSE IF cached_result # None
           THEN /\ done' = Outcome([q EXCEPT !.steps = <<"hit">>,
                                             !.body = body], "ok",
                                   hit_response(endpoint, cached_result, body),
                                   "")
                /\ UNCHANGED <<req, okResp>>
           ELSE /\ req' = [met EXCEPT ![w] =
                      [q EXCEPT !.pc = "recompute", !.raced = rivals # {}]]
                /\ done' = None
                /\ UNCHANGED okResp
    /\ UNCHANGED <<today, live, archive, cache>>
    /\ UNCHANGED OutsideAnalyze

\* _archive_old_predictions 47-51: read the live rows; nothing to archive
\* returns at once.
ArchiveQuery(w) ==
    /\ req[w].pc = "archive_query"
    /\ req' = [req EXCEPT ![w] =
          IF live = {}
          THEN [@ EXCEPT !.pc = "recompute", !.cached_data = None,
                         !.steps = Append(@, "archive")]
          ELSE [@ EXCEPT !.pc = "archive_commit", !.old_predictions = live]]
    /\ done' = None
    /\ UNCHANGED <<today, live, archive, cache, issued, okResp>>
    /\ UNCHANGED OutsideAnalyze

\* _archive_old_predictions 53-78: one archive entry per row read, committed.
ArchiveCommit(w) ==
    /\ req[w].pc = "archive_commit"
    /\ archive' = commit_archive(archive,
           archive_entries(req[w].old_predictions, req[w].cached_data,
                           req[w].analysis_date, req[w].id))
    /\ req' = [req EXCEPT ![w] =
          [@ EXCEPT !.pc = "recompute", !.cached_data = None,
                    !.old_predictions = {}, !.steps = Append(@, "archive"),
                    !.archived = Cardinality(req[w].old_predictions)]]
    /\ done' = None
    /\ UNCHANGED <<today, live, cache, issued, okResp>>
    /\ UNCHANGED OutsideAnalyze

\* Where the stocks of a request come from: the request or the market data
\* service ("given"), no symbol configured or none given ("none"), no data
\* from the market data service ("no_data").  Where the transits come from:
\* the request, the ephemeris, or nowhere (no transits given and an empty
\* list from the ephemeris).
StockSources == {"given", "none", "no_data"}
TransitSources == {"request", "ephemeris", "ephemeris_empty"}

\* analyze_market 130-147 reads no stocks; analyze_market_enhanced 252-277
\* obtains the stocks before the transits
StocksObtained(endpoint, stocks) == endpoint = "basic" \/ stocks = "given"

\* Variant: without transits the analysis runs on an empty list.
obtain_inputs_defaults(endpoint, stocks, transits_in) ==
    IF StocksObtained(endpoint, stocks) THEN "ok"
    ELSE IF stocks = "none" THEN "bad_request" ELSE "unavailable"

\* analyze_market 130-147, analyze_market_enhanced 252-295: "ok", or the
\* HTTPException raised while the stocks and the transits are obtained
\* (400 "bad_request", 503 "unavailable")
obtain_inputs(endpoint, stocks, transits_in) ==
    IF ~StocksObtained(endpoint, stocks)
    THEN IF stocks = "none" THEN "bad_request" ELSE "unavailable"
    ELSE IF transits_in = "ephemeris_empty" THEN "unavailable"
    ELSE "ok"

\* Variant: a failing enrichment call ends the loop over the sectors and
\* the predictions made so far are the result.
analyze_market_partial(r, failing) ==
    [sector_predictions |->
         {p \in sector_predictions(r) :
              failing = 0 \/ SectorRank(p.sector) + 1 < failing},
     timestamp |-> isoformat(r)]

\* AIService.analyze_market and analyze_market_with_stocks, run for request
\* r: one enrichment call per sector, of which the failing-th raises (0:
\* none does).  _generate_ai_insights re-raises and nothing on the way up
\* catches: the call returns no result.  A result is stamped with utcnow(),
\* a value no other run has: the number of the request stands for it.
analyze_market(r, failing) ==
    IF failing # 0 THEN None
    ELSE [sector_predictions |-> sector_predictions(r),
          timestamp |-> isoformat(r)]

\* analyze_market 129-153, analyze_market_enhanced 252-303: obtain stocks and
\* transits and run the analysis.
\*   an HTTPException while obtaining the inputs is raised as it is
\*   (except HTTPException: raise), before any enrichment call;
\*   an exception of the analysis is answered 500 after a rollback.
Recompute(w) ==
    /\ req[w].pc = "recompute"
    /\ \E stocks \in StockSources, transits_in \in TransitSources,
          failing \in 0..Cardinality(Sectors) :
          LET q == req[w]
              status == obtain_inputs(q.endpoint, stocks, transits_in)
              asked == [q EXCEPT !.no_transits =
                           /\ StocksObtained(q.endpoint, stocks)
                           /\ transits_in = "ephemeris_empty"]
              result == analyze_market(q.id, failing)
              ran == [asked EXCEPT
                         !.llm = @ + (IF failing = 0 THEN Cardinality(Sectors)
                                      ELSE failing),
                         !.steps = IF failing = 0 THEN Append(@, "recompute")
                                   ELSE Append(Append(@, "recompute"),
                                               "enrichment_failed")]
          IN  IF status # "ok"
              THEN /\ failing = 0
                   /\ done' = Outcome(asked, status, None, "HTTPException")
                   /\ req' = [req EXCEPT ![w] = Idle]
              ELSE IF result = None
              THEN /\ done' = Outcome(ran, "error", None, "enrichment")
                   /\ req' = [req EXCEPT ![w] = Idle]
              ELSE /\ req' = [req EXCEPT ![w] =
                         [ran EXCEPT !.pc = AfterRecompute(q),
                                     !.analysis_result = result]]
                   /\ done' = None
    /\ UNCHANGED <<today, live, archive, cache, issued, okResp>>
    /\ UNCHANGED OutsideAnalyze

\* analyze_market 158-160: read the live rows and mark each for deletion.
DeleteQuery(w) ==
    /\ req[w].pc = "delete_query"
    /\ req' = [req EXCEPT ![w] =
          [@ EXCEPT !.pc = "delete_commit", !.old_predictions = live]]
    /\ done' = None
    /\ UNCHANGED <<today, live, archive, cache, issued, okResp>>
    /\ UNCHANGED OutsideAnalyze

\* analyze_market 161: the deletions are flushed and committed (a row some
\* other session deleted meanwhile only draws a warning).
DeleteCommit(w) ==
    /\ req[w].pc = "delete_commit"
    /\ live' = delete_predictions(live, req[w].old_predictions)
    /\ req' = [req EXCEPT ![w] =
          [@ EXCEPT !.pc = "store", !.old_predictions = {},
                    !.steps = Append(@, "delete_live")]]
    /\ done' = None
    /\ UNCHANGED <<today, archive, cache, issued, okResp>>
    /\ UNCHANGED OutsideAnalyze

\* analyze_market 164-175, analyze_market_enhanced 306-320: one live row per
\* computed prediction, committed.
Store(w) ==
    /\ req[w].pc = "store"
    /\ live' = live \cup new_predictions(req[w].analysis_result,
                                         req[w].id, today,
                                         req[w].analysis_date)
    /\ req' = [req EXCEPT ![w] =
          [@ EXCEPT !.pc = AfterStore(req[w]), !.steps = Append(@, "store")]]
    /\ done' = None
    /\ UNCHANGED <<today, archive, cache, issued, okResp>>
    /\ UNCHANGED OutsideAnalyze

\* Variant: the entry to delete is looked up by the date alone.
delete_analyze_cache_by_date(c, analysis_date, endpoint_type) ==
    first({row \in c : row.analysis_date = analysis_date})

\* PredictionCacheService.delete_analyze_cache 191-197: the entry of the key
\* that is marked for deletion, or None
delete_analyze_cache(c, analysis_date, endpoint_type) ==
    first(CacheRows(c, analysis_date, endpoint_type))

\* analyze_market 188-190 with delete_analyze_cache 191-197: look the old
\* entry up and mark it for deletion.
CacheDelete(w) ==
    /\ req[w].pc = "cache_delete"
    /\ LET cached == delete_analyze_cache(cache, req[w].analysis_date, "basic")
       IN  req' = [req EXCEPT ![w] =
               IF cached # None
               THEN [@ EXCEPT !.pc = "cache_delete_commit", !.existing = cached]
               ELSE [@ EXCEPT !.pc = "save_query"]]
    /\ done' = None
    /\ UNCHANGED <<today, live, archive, cache, issued, okResp>>
    /\ UNCHANGED OutsideAnalyze

\* analyze_market 191: the deletion is committed.
CacheDeleteCommit(w) ==
    /\ req[w].pc = "cache_delete_commit"
    /\ cache' = {row \in cache : row.id # req[w].existing.id}
    /\ req' = [req EXCEPT ![w] =
          [@ EXCEPT !.pc = "save_query", !.existing = None,
                    !.steps = Append(@, "delete_cache")]]
    /\ done' = None
    /\ okResp' = [okResp EXCEPT ![req[w].analysis_date].hard = None]
    /\ UNCHANGED <<today, live, archive, issued>>
    /\ UNCHANGED OutsideAnalyze

\* save_analyze_cache 132-138: look for an entry of the key.
SaveQuery(w) ==
    /\ req[w].pc = "save_query"
    /\ req' = [req EXCEPT ![w] =
          [@ EXCEPT !.pc = "save_commit",
                    !.existing = first(CacheRows(cache, req[w].analysis_date,
                                                 req[w].endpoint))]]
    /\ done' = None
    /\ UNCHANGED <<today, live, archive, cache, issued, okResp>>
    /\ UNCHANGED OutsideAnalyze

\* Variant: an entry found is left as it is.
save_analyze_cache_insert_only(c, existing, analysis_date, endpoint_type, response_data, nextId) ==
    IF existing # None
    THEN c
    ELSE c \cup {[id |-> nextId, analysis_date |-> analysis_date,
                  endpoint_type |-> endpoint_type,
                  response_data |-> _serialize_datetime(response_data)]}

\* Variant: the payload goes into a new row whether an entry was found or
\* not.
save_analyze_cache_new_row(c, existing, analysis_date, endpoint_type, response_data, nextId) ==
    c \cup {[id |-> nextId, analysis_date |-> analysis_date,
             endpoint_type |-> endpoint_type,
             response_data |-> _serialize_datetime(response_data)]}

\* The analyze_cache table after the flush of save_analyze_cache 140-155:
\* the entry found is updated in place, otherwise a new row is inserted.
save_analyze_cache(c, existing, analysis_date, endpoint_type, response_data, nextId) ==
    IF existing # None
    THEN {IF row.id = existing.id
          THEN [row EXCEPT !.response_data = _serialize_datetime(response_data)]
          ELSE row : row \in c}
    ELSE c \cup {[id |-> nextId, analysis_date |-> analysis_date,
                  endpoint_type |-> endpoint_type,
                  response_data |-> _serialize_datetime(response_data)]}

\* The flush fails: the UPDATE matches no row (StaleDataError) or the INSERT
\* violates the unique constraint (IntegrityError).
SaveRefused(c, existing, analysis_date, endpoint_type) ==
    IF existing # None
    THEN \A row \in c : row.id # existing.id
    ELSE ~uq_analyze_cache_date_type(c, analysis_date, endpoint_type)

\* analyze_market 195-203, analyze_market_enhanced 323-330: the save is
\* committed and the response returned; a refused flush raises into the
\* handler's except clause (207-209, 334-338): rollback and 500.
SaveCommit(w) ==
    /\ req[w].pc = "save_commit"
    /\ LET q == req[w]
           d == q.analysis_date
           response == ResponseOf(q)
       IN  IF SaveRefused(cache, q.existing, d, q.endpoint)
           THEN /\ done' = Outcome(q, "error", None,
                                   IF q.existing # None THEN "StaleDataError"
                                   ELSE "IntegrityError")
                /\ UNCHANGED <<cache, okResp>>
           ELSE /\ cache' = save_analyze_cache(cache, q.existing, d, q.endpoint,
                                               response, q.id)
                /\ done' = Outcome([q EXCEPT !.steps = Append(@, "save")],
                                   "ok", response, "")
                /\ okResp' =
                      IF q.endpoint # "basic" THEN okResp
                      ELSE IF q.hard_refresh
                      THEN [okResp EXCEPT ![d].hard = response]
                      ELSE IF HardOthers(w, d)
                      THEN [okResp EXCEPT ![d].hard = None]
                      ELSE [okResp EXCEPT ![d] =
                               [first |-> IF @.first = None THEN response ELSE @.first,
                                last |-> response, hard |-> None]]
    /\ req' = [req EXCEPT ![w] = Idle]
    /\ UNCHANGED <<today, live, archive, issued>>
    /\ UNCHANGED OutsideAnalyze

\* Any statement of a handler may raise (the database is unreachable, a
\* commit fails): except Exception rolls back what is pending and answers
\* 500 (analyze_market 207-209, analyze_market_enhanced 334-338).
Fail(w) ==
    /\ InFlight(w)
    /\ done' = Outcome(req[w], "error", None, "Exception")
    /\ req' = [req EXCEPT ![w] = Idle]
    /\ UNCHANGED <<today, live, archive, cache, issued, okResp>>
    /\ UNCHANGED OutsideAnalyze

Next ==
    \/ Tick
    \/ \E w \in Workers, endpoint \in Endpoints, hard_refresh \in BOOLEAN :
           Begin(w, endpoint, hard_refresh)
    \/ \E w \in Workers : ArchiveQuery(w)
    \/ \E w \in Workers : ArchiveCommit(w)
    \/ \E w \in Workers : Recompute(w)
    \/ \E w \in Workers : DeleteQuery(w)
    \/ \E w \in Workers : DeleteCommit(w)
    \/ \E w \in Workers : Store(w)
    \/ \E w \in Workers : CacheDelete(w)
    \/ \E w \in Workers : CacheDeleteCommit(w)
    \/ \E w \in Workers : SaveQuery(w)
    \/ \E w \in Workers : SaveCommit(w)
    \/ \E w \in Workers : Fail(w)

Spec == Init /\ [][Next]_vars

\* ================================================================ /predict
\* PredictionService.generate_prediction for request r: the response, stamped
\* with the time of its generation.
generate_prediction(r, prediction_date) ==
    [prediction_date |-> prediction_date, timestamp |-> isoformat(r)]

PredictionRows(c, prediction_date) ==
    {row \in c : row.prediction_date = prediction_date}

\* PredictionCacheService.get_prediction_cache
get_prediction_cache(c, prediction_date) ==
    LET cached == first(PredictionRows(c, prediction_date))
    IN  IF cached # None THEN cached.response_data ELSE None

\* The prediction_cache table after the flush of save_prediction_cache 80-94:
\* the entry found is updated, otherwise a row is inserted.  The table has
\* an index on prediction_date and no unique constraint (models.py 116-128).
save_prediction_cache(c, existing, prediction_date, response_data, nextId) ==
    IF existing # None
    THEN {IF row.id = existing.id
          THEN [row EXCEPT !.response_data = response_data]
          ELSE row : row \in c}
    ELSE c \cup {[id |-> nextId, prediction_date |-> prediction_date,
                  response_data |-> response_data]}

PredictInFlight(w) == predict_req[w].pc # "idle"

\* predict_market 45-57: a request for a date (request.date, or today)
\* arrives at the first idle worker and looks the cache up; a hit returns the
\* cached response.
PredictBegin(w, prediction_date) ==
    /\ predict_req[w].pc = "idle"
    /\ \A v \in Workers : v < w => predict_req[v].pc # "idle"
    /\ issued < MaxRequests
    /\ issued' = issued + 1
    /\ predict_req' =
          IF get_prediction_cache(prediction_cache, prediction_date) # None
          THEN predict_req
          ELSE [predict_req EXCEPT ![w] =
                   [IdlePredict EXCEPT !.pc = "generate", !.id = issued + 1,
                                       !.prediction_date = prediction_date]]
    /\ UNCHANGED prediction_cache
    /\ UNCHANGED OutsidePredict

\* predict_market 59-72: the prediction is generated.
PredictGenerate(w) ==
    /\ predict_req[w].pc = "generate"
    /\ predict_req' = [predict_req EXCEPT ![w].pc = "save_query"]
    /\ UNCHANGED <<prediction_cache, issued>>
    /\ UNCHANGED OutsidePredict

\* save_prediction_cache 76-78: look for an entry of the date.
PredictSaveQuery(w) ==
    /\ predict_req[w].pc = "save_query"
    /\ predict_req' = [predict_req EXCEPT ![w] =
          [@ EXCEPT !.pc = "save_commit",
                    !.existing = first(PredictionRows(prediction_cache,
                                           predict_req[w].prediction_date))]]
    /\ UNCHANGED <<prediction_cache, issued>>
    /\ UNCHANGED OutsidePredict

\* predict_market 74-81: the save is committed and the prediction returned.
PredictSaveCommit(w) ==
    /\ predict_req[w].pc = "save_commit"
    /\ LET q == predict_req[w]
       IN  prediction_cache' =
               save_prediction_cache(prediction_cache, q.existing,
                   q.prediction_date,
                   generate_prediction(q.id, q.prediction_date), q.id)
    /\ predict_req' = [predict_req EXCEPT ![w] = IdlePredict]
    /\ UNCHANGED issued
    /\ UNCHANGED OutsidePredict

\* predict_market 83-85: any statement may raise; rollback and 500.
PredictFail(w) ==
    /\ PredictInFlight(w)
    /\ predict_req' = [predict_req EXCEPT ![w] = IdlePredict]
    /\ UNCHANGED <<prediction_cache, issued>>
    /\ UNCHANGED OutsidePredict

NextPredict ==
    \/ \E w \in Workers, d \in Days : PredictBegin(w, d)
    \/ \E w \in Workers : PredictGenerate(w)
    \/ \E w \in Workers : PredictSaveQuery(w)
    \/ \E w \in Workers : PredictSaveCommit(w)
    \/ \E w \in Workers : PredictFail(w)

SpecPredict == Init /\ [][NextPredict]_vars

\* =============================================================== /transits
\* ephemeris_service.PLANETS, in the order of the dictionary
PLANETS == <<"Sun", "Moon", "Mars", "Mercury", "Jupiter", "Venus", "Saturn",
             "Rahu", "Ketu">>

\* get_transits 76: a date counts as cached from this many rows on
MinCachedPlanets == 8

\* get_planetary_transits: one transit per planet whose position could be
\* calculated (get_all_planetary_positions skips the others), here the first
\* n planets; none, one too few to count as cached, just enough, and all
EphemerisYields == {0, MinCachedPlanets - 1, MinCachedPlanets, Len(PLANETS)}
get_planetary_transits(n) == {PLANETS[i] : i \in 1..n}

TransitRows(table, target_date) == {row \in table : row.date = target_date}

\* get_transits 125-142: one Transit row per calculated transit
transit_records(calculated, target_date, r) ==
    {[id |-> <<r, planet>>, date |-> target_date, planet |-> planet, by |-> r]
        : planet \in calculated}

\* Variant: the table has no unique constraint.
uq_transit_absent(table, records) == TRUE

\* UniqueConstraint('date', 'planet', name='uq_transit_date_planet'): the
\* INSERT of a row whose (date, planet) the table holds is refused
uq_transit_date_planet(table, records) ==
    \A new \in records : \A row \in table :
        ~(row.date = new.date /\ row.planet = new.planet)

TransitsInFlight(w) == transit_req[w].pc # "idle"

\* get_transits 45-65: a request for a date arrives at the first idle
\* worker.
TransitsBegin(w, target_date, hard_refresh) ==
    /\ transit_req[w].pc = "idle"
    /\ \A v \in Workers : v < w => transit_req[v].pc # "idle"
    /\ issued < MaxRequests
    /\ issued' = issued + 1
    /\ transit_req' = [transit_req EXCEPT ![w] =
          [IdleTransits EXCEPT !.pc = IF hard_refresh THEN "hard_delete"
                                      ELSE "read",
                               !.id = issued + 1,
                               !.target_date = target_date,
                               !.hard_refresh = hard_refresh]]
    /\ UNCHANGED transits
    /\ UNCHANGED OutsideTransits

\* get_transits 66-67: a hard refresh deletes the rows of the date and
\* commits.
TransitsHardDelete(w) ==
    /\ transit_req[w].pc = "hard_delete"
    /\ transits' = transits \ TransitRows(transits, transit_req[w].target_date)
    /\ transit_req' = [transit_req EXCEPT ![w].pc = "read"]
    /\ UNCHANGED issued
    /\ UNCHANGED OutsideTransits

\* get_transits 71-108: read the rows of the date; without hard_refresh,
\* enough of them are returned as they are.
TransitsRead(w) ==
    /\ transit_req[w].pc = "read"
    /\ LET q == transit_req[w]
           cached_transits == TransitRows(transits, q.target_date)
       IN  transit_req' = [transit_req EXCEPT ![w] =
               IF ~q.hard_refresh
                  /\ Cardinality(cached_transits) >= MinCachedPlanets
               THEN IdleTransits
               ELSE [q EXCEPT !.pc = "calculate"]]
    /\ UNCHANGED <<transits, issued>>
    /\ UNCHANGED OutsideTransits

\* get_transits 111-122: calculate the transits (none: HTTPException 500)
\* and delete the rows of the date: the DELETE takes the rows committed when
\* it runs, and is itself committed with the inserts.
TransitsCalculate(w) ==
    /\ transit_req[w].pc = "calculate"
    /\ \E n \in EphemerisYields :
          LET calculated == get_planetary_transits(n)
          IN  transit_req' = [transit_req EXCEPT ![w] =
                  IF calculated = {} THEN IdleTransits
                  ELSE [@ EXCEPT !.pc = "commit",
                                 !.calculated = calculated,
                                 !.deleted = TransitRows(transits,
                                                 transit_req[w].target_date)]]
    /\ UNCHANGED <<transits, issued>>
    /\ UNCHANGED OutsideTransits

\* get_transits 125-151: the new rows are flushed and the transaction
\* committed; an INSERT the unique constraint refuses raises into except
\* Exception (155-160): rollback, of the DELETE as well, and 500.
TransitsCommit(w) ==
    /\ transit_req[w].pc = "commit"
    /\ LET q == transit_req[w]
           remaining == transits \ q.deleted
           records == transit_records(q.calculated, q.target_date, q.id)
       IN  transits' = IF uq_transit_date_planet(remaining, records)
                       THEN remaining \cup records
                       ELSE transits
    /\ transit_req' = [transit_req EXCEPT ![w] = IdleTransits]
    /\ UNCHANGED issued
    /\ UNCHANGED OutsideTransits

\* get_transits 155-160: any statement may raise; rollback and 500.
TransitsFail(w) ==
    /\ TransitsInFlight(w)
    /\ transit_req' = [transit_req EXCEPT ![w] = IdleTransits]
    /\ UNCHANGED <<transits, issued>>
    /\ UNCHANGED OutsideTransits

NextTransits ==
    \/ \E w \in Workers, d \in Days, hard_refresh \in BOOLEAN :
           TransitsBegin(w, d, hard_refresh)
    \/ \E w \in Workers : TransitsHardDelete(w)
    \/ \E w \in Workers : TransitsRead(w)
    \/ \E w \in Workers : TransitsCalculate(w)
    \/ \E w \in Workers : TransitsCommit(w)
    \/ \E w \in Workers : TransitsFail(w)

SpecTransits == Init /\ [][NextTransits]_vars

\* ==================================================== astrology_engine.py
\* SIGN_ELEMENT_MAP (astrology_engine.py 22-35)
SIGN_ELEMENT_MAP ==
    "Aries" :> "Fire" @@ "Taurus" :> "Earth" @@ "Gemini" :> "Air" @@
    "Cancer" :> "Water" @@ "Leo" :> "Fire" @@ "Virgo" :> "Earth" @@
    "Libra" :> "Air" @@ "Scorpio" :> "Water" @@ "Sagittarius" :> "Fire" @@
    "Capricorn" :> "Earth" @@ "Aquarius" :> "Air" @@ "Pisces" :> "Water"

\* ELEMENT_SECTOR_MAP (astrology_engine.py 38-44)
ELEMENT_SECTOR_MAP ==
    "Fire" :> <<"Energy", "Oil & Gas", "Power", "Automotive">> @@
    "Earth" :> <<"Real Estate", "Agriculture", "Mining", "Construction", "FMCG">> @@
    "Water" :> <<"Chemicals", "Pharmaceuticals", "Beverages", "Marine">> @@
    "Air" :> <<"Technology", "Telecom", "Aviation", "Media">> @@
    "Ether" :> <<"Banking", "Finance", "Insurance", "Education">>

\* PLANET_MARKET_SIGNIFICATIONS (astrology_engine.py 47-102), without the
\* qualities, which no decision reads
PLANET_MARKET_SIGNIFICATIONS ==
    "Jupiter" :>
        [sectors |-> <<"Banking", "Finance", "Education", "Pharma">>,
         exalted_in |-> "Cancer", debilitated_in |-> "Capricorn"] @@
    "Saturn" :>
        [sectors |-> <<"Iron & Steel", "Oil", "Mining", "Real Estate">>,
         exalted_in |-> "Libra", debilitated_in |-> "Aries"] @@
    "Mars" :>
        [sectors |-> <<"Defense", "Real Estate", "Energy", "Machinery">>,
         exalted_in |-> "Capricorn", debilitated_in |-> "Cancer"] @@
    "Venus" :>
        [sectors |-> <<"Luxury Goods", "Entertainment", "Hospitality", "Fashion">>,
         exalted_in |-> "Pisces", debilitated_in |-> "Virgo"] @@
    "Mercury" :>
        [sectors |-> <<"IT", "Communication", "Trading", "Commerce">>,
         exalted_in |-> "Virgo", debilitated_in |-> "Pisces"] @@
    "Moon" :>
        [sectors |-> <<"FMCG", "Dairy", "Public Services", "Hospitality">>,
         exalted_in |-> "Taurus", debilitated_in |-> "Scorpio"] @@
    "Sun" :>
        [sectors |-> <<"Government", "Pharmaceuticals", "Gold", "Power">>,
         exalted_in |-> "Aries", debilitated_in |-> "Libra"] @@
    "Rahu" :>
        [sectors |-> <<"Technology", "Foreign Trade", "Aviation", "Speculation">>,
         exalted_in |-> "Taurus", debilitated_in |-> "Scorpio"] @@
    "Ketu" :>
        [sectors |-> <<"Spirituality", "Research", "Occult", "Electronics">>,
         exalted_in |-> "Scorpio", debilitated_in |-> "Taurus"]

\* Every sector the two tables name, in the order of their first mention
AllSectorNames ==
    <<"Banking", "Finance", "Education", "Pharma", "Iron & Steel", "Oil",
      "Mining", "Real Estate", "Defense", "Energy", "Machinery",
      "Luxury Goods", "Entertainment", "Hospitality", "Fashion", "IT",
      "Communication", "Trading", "Commerce", "FMCG", "Dairy",
      "Public Services", "Government", "Pharmaceuticals", "Gold", "Power",
      "Technology", "Foreign Trade", "Aviation", "Speculation",
      "Spirituality", "Research", "Occult", "Electronics", "Oil & Gas",
      "Automotive", "Agriculture", "Construction", "Chemicals",
      "Beverages", "Marine", "Telecom", "Media", "Insurance">>

Planets == DOMAIN PLANET_MARKET_SIGNIFICATIONS
Signs == DOMAIN SIGN_ELEMENT_MAP
Motions == {"Direct", "Retrograde"}

\* Python strings are kept as the tuple of the pieces they are concatenated
\* from, and `word in text' is decided piece by piece: these are the pieces
\* of the engine's texts in which the words it looks for occur.
Within ==
    {<<"Exalted", "Exalted (Very Strong)">>,
     <<"Debilitated", "Debilitated (Weak)">>,
     <<"Retrograde", " + Retrograde (Introspective/Delayed)">>,
     <<"Retrograde", "Retrograde">>,
     <<"Positive", "Highly Positive">>,
     <<"Positive", "Positive">>,
     <<"Challenging", "Challenging">>}

In(word, text) == \E i \in DOMAIN text : <<word, text[i]>> \in Within

\* list(set(xs)): the elements of xs, each once, in the order in which the
\* set iterates.  That order follows the hashes of the strings, which differ
\* from one interpreter process to the next (hash randomisation): two of the
\* orders a process may produce.
HashOrders == {"forward", "backward"}

RECURSIVE Reverse(_)
Reverse(xs) == IF xs = <<>> THEN <<>> ELSE Append(Reverse(Tail(xs)), Head(xs))

list_set(xs, order) ==
    LET members == {xs[i] : i \in DOMAIN xs}
        base == IF order = "forward" THEN AllSectorNames
                ELSE Reverse(AllSectorNames)
    IN  SelectSeq(base, LAMBDA x : x \in members)

\* Variant: a retrograde motion is looked at before the debilitation.
_determine_influence_type_retrograde_first(strength, motion) ==
    IF In("Exalted", strength) /\ motion = "Direct" THEN "Highly Positive"
    ELSE IF In("Retrograde", <<motion>>) THEN "Mixed (Delays/Review)"
    ELSE IF In("Debilitated", strength) THEN "Challenging"
    ELSE "Positive"

\* AstrologyEngine._determine_influence_type
_determine_influence_type(strength, motion) ==
    IF In("Exalted", strength) /\ motion = "Direct" THEN "Highly Positive"
    ELSE IF In("Debilitated", strength) THEN "Challenging"
    ELSE IF In("Retrograde", <<motion>>) THEN "Mixed (Delays/Review)"
    ELSE "Positive"

\* Variant: a planet the table does not know is analysed as a planet
\* without sectors and dignities of its own.
analyze_transit_unknown_by_element(planet, sign, motion, order) ==
    LET planet_data == IF planet \in DOMAIN PLANET_MARKET_SIGNIFICATIONS
                       THEN PLANET_MARKET_SIGNIFICATIONS[planet]
                       ELSE [sectors |-> <<>>, exalted_in |-> "",
                             debilitated_in |-> ""]
        sign_element == IF sign \in DOMAIN SIGN_ELEMENT_MAP
                        THEN SIGN_ELEMENT_MAP[sign] ELSE "Unknown"
        dignity == IF sign = planet_data.exalted_in
                   THEN <<"Exalted (Very Strong)">>
                   ELSE IF sign = planet_data.debilitated_in
                   THEN <<"Debilitated (Weak)">>
                   ELSE <<"Neutral">>
        strength == IF motion = "Retrograde"
                    THEN Append(dignity, " + Retrograde (Introspective/Delayed)")
                    ELSE dignity
        affected_sectors ==
            planet_data.sectors \o
                (IF sign_element \in DOMAIN ELEMENT_SECTOR_MAP
                 THEN ELEMENT_SECTOR_MAP[sign_element] ELSE <<>>)
    IN  [planet |-> planet,
         sign |-> sign,
         element |-> sign_element,
         strength |-> strength,
         motion |-> motion,
         affected_sectors |-> list_set(affected_sectors, order),
         influence_type |-> _determine_influence_type(strength, motion)]

\* AstrologyEngine.analyze_transit
analyze_transit(planet, sign, motion, order) ==
    IF planet \notin DOMAIN PLANET_MARKET_SIGNIFICATIONS
    THEN [error |-> <<"Unknown planet: ", planet>>]
    ELSE
    LET planet_data == PLANET_MARKET_SIGNIFICATIONS[planet]
        sign_element == IF sign \in DOMAIN SIGN_ELEMENT_MAP
                        THEN SIGN_ELEMENT_MAP[sign] ELSE "Unknown"
        dignity == IF sign = planet_data.exalted_in
                   THEN <<"Exalted (Very Strong)">>
                   ELSE IF sign = planet_data.debilitated_in
                   THEN <<"Debilitated (Weak)">>
                   ELSE <<"Neutral">>
        strength == IF motion = "Retrograde"
                    THEN Append(dignity, " + Retrograde (Introspective/Delayed)")
                    ELSE dignity
        affected_sectors ==
            planet_data.sectors \o
                (IF sign_element \in DOMAIN ELEMENT_SECTOR_MAP
                 THEN ELEMENT_SECTOR_MAP[sign_element] ELSE <<>>)
    IN  [planet |-> planet,
         sign |-> sign,
         element |-> sign_element,
         strength |-> strength,
         motion |-> motion,
         affected_sectors |-> list_set(affected_sectors, order),
         influence_type |-> _determine_influence_type(strength, motion)]

\* The functions of the analysis are called with arguments drawn from their
\* domains and return.
InitAnalyzeTransit ==
    /\ InitAnalyze /\ InitPredict /\ InitTransits /\ InitRateLimiter
    /\ call \in [planet : Planets, sign : Signs \cup {"Ophiuchus"},
                  motion : Motions,
                  order : HashOrders]
    /\ ret = None

ReturnAnalyzeTransit ==
    /\ ret = None
    /\ ret' = analyze_transit(call.planet, call.sign, call.motion, call.order)
    /\ UNCHANGED call
    /\ UNCHANGED OutsideEngine

SpecAnalyzeTransit == InitAnalyzeTransit /\ [][ReturnAnalyzeTransit]_vars

\* The entry analyze_sector_influences appends to the list of each sector a
\* transit affects (the qualities are carried along and read nowhere)
influence_entry(planet, sign, motion, order) ==
    LET analysis == analyze_transit(planet, sign, motion, order)
    IN  [planet |-> planet,
         sign |-> sign,
         strength |-> analysis.strength,
         influence_type |-> analysis.influence_type]

\* inf.get("influence_type", "")
influence_type_of(inf) ==
    IF "influence_type" \in DOMAIN inf THEN <<inf.influence_type>> ELSE <<>>

\* sum(1 for inf in influences if word in inf.get("influence_type", ""))
RECURSIVE count_influences(_, _)
count_influences(word, influences) ==
    IF influences = <<>> THEN 0
    ELSE (IF In(word, influence_type_of(Head(influences))) THEN 1 ELSE 0)
         + count_influences(word, Tail(influences))

\* xs[:n]
Take(xs, n) == SubSeq(xs, 1, IF Len(xs) < n THEN Len(xs) ELSE n)

\* The reason sentence, as the planets and the influences it is built from
reason_of(influences) ==
    [influenced_by |-> [i \in DOMAIN Take(influences, 3) |-> influences[i].planet],
     details |-> [i \in DOMAIN Take(influences, 2) |->
                     <<influences[i].planet, influences[i].sign,
                       influences[i].strength>>]]

\* Variant: any lead of one count over the other gives Medium confidence.
get_sector_prediction_any_lead(sector, influences) ==
    IF influences = <<>>
    THEN [sector |-> sector, trend |-> "Neutral", confidence |-> "Low",
          reason |-> "No significant planetary influences detected"]
    ELSE LET positive_count == count_influences("Positive", influences)
             challenging_count == count_influences("Challenging", influences)
             trend == IF positive_count > challenging_count THEN "Bullish"
                      ELSE IF challenging_count > positive_count THEN "Bearish"
                      ELSE "Neutral"
             confidence ==
                 IF positive_count > challenging_count
                 THEN "Medium"
                 ELSE IF challenging_count > positive_count
                 THEN "Medium"
                 ELSE "Low"
         IN  [sector |-> sector, trend |-> trend, confidence |-> confidence,
              reason |-> reason_of(influences),
              planetary_influences |-> influences]

\* AstrologyEngine.get_sector_prediction
get_sector_prediction(sector, influences) ==
    IF influences = <<>>
    THEN [sector |-> sector, trend |-> "Neutral", confidence |-> "Low",
          reason |-> "No significant planetary influences detected"]
    ELSE LET positive_count == count_influences("Positive", influences)
             challenging_count == count_influences("Challenging", influences)
             trend == IF positive_count > challenging_count THEN "Bullish"
                      ELSE IF challenging_count > positive_count THEN "Bearish"
                      ELSE "Neutral"
             confidence ==
                 IF positive_count > challenging_count
                 THEN (IF positive_count > challenging_count + 1
                       THEN "Medium" ELSE "Low")
                 ELSE IF challenging_count > positive_count
                 THEN (IF challenging_count > positive_count + 1
                       THEN "Medium" ELSE "Low")
                 ELSE "Low"
         IN  [sector |-> sector, trend |-> trend, confidence |-> confidence,
              reason |-> reason_of(influences),
              planetary_influences |-> influences]

\* Influence lists of up to MaxInfluences entries: one entry of each
\* influence type, and one that has no influence_type at all
MaxInfluences == 4

InfluenceSamples ==
    {influence_entry("Jupiter", "Cancer", "Direct", "forward"),
     influence_entry("Saturn", "Aries", "Retrograde", "forward"),
     influence_entry("Mars", "Gemini", "Retrograde", "forward"),
     influence_entry("Venus", "Leo", "Direct", "forward"),
     [planet |-> "Moon", sign |-> "Aries", strength |-> <<"Neutral">>]}

InitSectorPrediction ==
    /\ InitAnalyze /\ InitPredict /\ InitTransits /\ InitRateLimiter
    /\ call \in [sector : {"Banking"},
                  influences : UNION {[1..n -> InfluenceSamples] :
                                          n \in 0..MaxInfluences}]
    /\ ret = None

ReturnSectorPrediction ==
    /\ ret = None
    /\ ret' = get_sector_prediction(call.sector, call.influences)
    /\ UNCHANGED call
    /\ UNCHANGED OutsideEngine

SpecSectorPrediction == InitSectorPrediction /\ [][ReturnSectorPrediction]_vars

\* ============================================================ ai_service.py
\* Numbers with a fractional part are kept in hundredths: a confidence of
\* 0.85 is 85, a score of 50.0 is 5000.  Every product and sum of
\* _calculate_signal is exact in binary floating point for the confidences
\* of confidence_map and the default 0.5, so the integers lose nothing.
\* A key a dict may lack (or hold None under) is the empty tuple, a key it
\* has is the one-element tuple of its value.
get(field, default) == IF field = <<>> THEN default ELSE field[1]

\* confidence_map.get(confidence_str, 0.5) of _get_ai_sector_predictions
confidence_numeric(confidence_str) ==
    IF confidence_str = "High" THEN 85
    ELSE IF confidence_str = "Medium" THEN 65
    ELSE IF confidence_str = "Low" THEN 45
    ELSE 50

\* Variant: the score is kept within 0 .. 100.
signal_score_clamped(stock, sector_pred) ==
    LET change_percent == get(stock.change_percent, 0)
        past_6m_return == get(stock.past_6m_return, 0)
        volatility == get(stock.volatility, "Medium")
        base == 5000
        trended == IF sector_pred.trend = "Bullish"
                   THEN base + 40 * sector_pred.confidence
                   ELSE IF sector_pred.trend = "Bearish"
                   THEN base - 40 * sector_pred.confidence
                   ELSE base
        performed == IF past_6m_return > 20 THEN trended + 3000
                     ELSE IF past_6m_return > 10 THEN trended + 2000
                     ELSE IF past_6m_return > 0 THEN trended + 1000
                     ELSE IF past_6m_return < -20 THEN trended - 3000
                     ELSE IF past_6m_return < -10 THEN trended - 2000
                     ELSE trended - 1000
        moved == IF change_percent > 2 THEN performed + 2000
                 ELSE IF change_percent > 0 THEN performed + 1000
                 ELSE IF change_percent < -2 THEN performed - 2000
                 ELSE IF change_percent < 0 THEN performed - 1000
                 ELSE performed
        adjusted == IF volatility = "Low" THEN moved + 1000
                    ELSE IF volatility = "High" THEN moved - 1000
                    ELSE moved
    IN  IF adjusted > 10000 THEN 10000 ELSE IF adjusted < 0 THEN 0 ELSE adjusted

\* The score of _calculate_signal (the statements from `score = 50.0' to
\* the volatility adjustment)
signal_score(stock, sector_pred) ==
    LET change_percent == get(stock.change_percent, 0)
        past_6m_return == get(stock.past_6m_return, 0)
        volatility == get(stock.volatility, "Medium")
        base == 5000
        trended == IF sector_pred.trend = "Bullish"
                   THEN base + 40 * sector_pred.confidence
                   ELSE IF sector_pred.trend = "Bearish"
                   THEN base - 40 * sector_pred.confidence
                   ELSE base
        performed == IF past_6m_return > 20 THEN trended + 3000
                     ELSE IF past_6m_return > 10 THEN trended + 2000
                     ELSE IF past_6m_return > 0 THEN trended + 1000
                     ELSE IF past_6m_return < -20 THEN trended - 3000
                     ELSE IF past_6m_return < -10 THEN trended - 2000
                     ELSE trended - 1000
        moved == IF change_percent > 2 THEN performed + 2000
                 ELSE IF change_percent > 0 THEN performed + 1000
                 ELSE IF change_percent < -2 THEN performed - 2000
                 ELSE IF change_percent < 0 THEN performed - 1000
                 ELSE performed
    IN  IF volatility = "Low" THEN moved + 1000
        ELSE IF volatility = "High" THEN moved - 1000
        ELSE moved

\* Variant: a score of exactly 70 is not yet a BUY.
signal_decision_strict(score) ==
    IF score > 7000 THEN "BUY"
    ELSE IF score <= 4000 THEN "SELL"
    ELSE "HOLD"

\* The signal of _calculate_signal
signal_decision(score) ==
    IF score >= 7000 THEN "BUY"
    ELSE IF score <= 4000 THEN "SELL"
    ELSE "HOLD"

\* AIService._calculate_signal (the texts of the result are left out)
_calculate_signal(stock, sector_pred) ==
    LET score == signal_score(stock, sector_pred)
    IN  [symbol |-> stock.symbol,
         sector |-> stock.sector,
         change_percent |-> get(stock.change_percent, 0),
         signal |-> signal_decision(score),
         confidence |-> sector_pred.confidence,
         past_6m_return |-> get(stock.past_6m_return, 0),
         volatility |-> get(stock.volatility, "Medium"),
         score |-> score]

\* Stocks whose returns and day changes lie on, between and beyond the
\* steps of the two ladders, or are missing
MaxReturn == 21
MaxChange == 3

Optional(S) == {<<>>} \cup {<<x>> : x \in S}

InitSignal ==
    /\ InitAnalyze /\ InitPredict /\ InitTransits /\ InitRateLimiter
    /\ call \in [stock : [symbol : {"TCS"}, sector : {"Technology"},
                           change_percent : Optional(-MaxChange..MaxChange),
                           past_6m_return : Optional(-MaxReturn..MaxReturn),
                           volatility : Optional({"Low", "Medium", "High"})],
                  sector_pred : [trend : {"Bullish", "Bearish", "Neutral"},
                                 confidence : {confidence_numeric(c) :
                                     c \in {"High", "Medium", "Low", "none"}}]]
    /\ ret = None

ReturnSignal ==
    /\ ret = None
    /\ ret' = _calculate_signal(call.stock, call.sector_pred)
    /\ UNCHANGED call
    /\ UNCHANGED OutsideEngine

SpecSignal == InitSignal /\ [][ReturnSignal]_vars

\* ------------------------------------------------------ the full pipeline
\* A Python dict keeps its keys in the order of their first insertion: it is
\* the sequence of its items.
dict_append(d, key, entry) ==
    IF \E i \in DOMAIN d : d[i].key = key
    THEN [i \in DOMAIN d |->
            IF d[i].key = key
            THEN [key |-> key, value |-> Append(d[i].value, entry)]
            ELSE d[i]]
    ELSE Append(d, [key |-> key, value |-> <<entry>>])

\* The inner loop of analyze_sector_influences: the entry of one transit is
\* appended under each sector the transit affects
RECURSIVE add_influences(_, _, _)
add_influences(sector_influences, affected_sectors, entry) ==
    IF affected_sectors = <<>> THEN sector_influences
    ELSE add_influences(dict_append(sector_influences, Head(affected_sectors), entry),
                        Tail(affected_sectors), entry)

\* AstrologyEngine.analyze_sector_influences, in a process whose sets
\* iterate in `order'; sector_influences is what the transits before have
\* left
RECURSIVE analyze_sector_influences(_, _, _)
analyze_sector_influences(sector_influences, transits_in, order) ==
    IF transits_in = <<>> THEN sector_influences
    ELSE LET transit_data == Head(transits_in)
             planet == IF "planet" \in DOMAIN transit_data
                       THEN transit_data.planet ELSE "None"
             sign == IF "sign" \in DOMAIN transit_data
                     THEN transit_data.sign ELSE "None"
             motion == IF "motion" \in DOMAIN transit_data
                       THEN transit_data.motion ELSE "Direct"
             analysis == analyze_transit(planet, sign, motion, order)
             affected_sectors == IF "affected_sectors" \in DOMAIN analysis
                                 THEN analysis.affected_sectors ELSE <<>>
             entry == influence_entry(planet, sign, motion, order)
         IN  analyze_sector_influences(
                 add_influences(sector_influences, affected_sectors, entry),
                 Tail(transits_in), order)

\* AIService._summarize_planetary_influences, as the parts of its text
_summarize_planetary_influences(influences) ==
    [i \in DOMAIN Take(influences, 3) |->
        <<influences[i].planet, influences[i].sign, influences[i].strength>>]

\* The enrichment service is held fixed: it answers the same text for the
\* same sector and trend.
_generate_ai_insights(sector, trend) == <<"insights", sector, trend>>

\* AIService._get_ai_sector_predictions
_get_ai_sector_predictions(sector_influences) ==
    [i \in DOMAIN sector_influences |->
        LET sector == sector_influences[i].key
            influences == sector_influences[i].value
            base_prediction == get_sector_prediction(sector, influences)
        IN  [sector |-> sector,
             trend |-> base_prediction.trend,
             planetary_influence |-> _summarize_planetary_influences(influences),
             ai_insights |-> _generate_ai_insights(sector, base_prediction.trend),
             confidence |-> confidence_numeric(base_prediction.confidence),
             reason |-> base_prediction.reason]]

\* sector_trends.get(sector, {...}) of _generate_stock_signals: the last
\* prediction of the sector, or the neutral default
sector_trend_of(predictions, sector) ==
    LET found == {i \in DOMAIN predictions :
                     predictions[i].sector = sector}
    IN  IF found = {}
        THEN [trend |-> "Neutral", confidence |-> 50]
        ELSE LET last == CHOOSE i \in found : \A j \in found : j <= i
             IN  [trend |-> predictions[last].trend,
                  confidence |-> predictions[last].confidence]

\* signals.sort(key=score, reverse=True): a stable sort, equal scores keep
\* the order they had
RECURSIVE sort_by_score(_)
sort_by_score(signals) ==
    IF signals = <<>> THEN <<>>
    ELSE LET front == SubSeq(signals, 1, Len(signals) - 1)
             sorted == sort_by_score(front)
             x == signals[Len(signals)]
             before == SelectSeq(sorted, LAMBDA y : y.score >= x.score)
             after == SelectSeq(sorted, LAMBDA y : y.score < x.score)
         IN  before \o <<x>> \o after

\* Variant: the signals are left in the order of the stocks.
_generate_stock_signals_unsorted(stock_data, predictions) ==
    [i \in DOMAIN stock_data |->
        _calculate_signal(stock_data[i],
                          sector_trend_of(predictions, stock_data[i].sector))]

\* AIService._generate_stock_signals
_generate_stock_signals(stock_data, predictions) ==
    sort_by_score(
        [i \in DOMAIN stock_data |->
            _calculate_signal(stock_data[i],
                              sector_trend_of(predictions, stock_data[i].sector))])

\* AIService._create_sector_analysis
_create_sector_analysis(predictions, all_stock_signals) ==
    [i \in DOMAIN predictions |->
        [sector |-> predictions[i].sector,
         trend |-> predictions[i].trend,
         planetary_influence |-> predictions[i].planetary_influence,
         ai_insights |-> predictions[i].ai_insights,
         stocks_in_sector |->
             SelectSeq(all_stock_signals,
                       LAMBDA st : st.sector = predictions[i].sector),
         confidence |-> predictions[i].confidence]]

\* Variant: the slots the BUY signals leave are filled from every other
\* signal, SELL included.
_get_top_recommendations_any_fill(all_signals, limit) ==
    LET buy_signals == SelectSeq(all_signals, LAMBDA sig : sig.signal = "BUY")
        hold_signals == SelectSeq(all_signals, LAMBDA sig : sig.signal # "BUY")
        top_buys == Take(buy_signals, limit)
        remaining == limit - Len(top_buys)
        top_stocks == IF remaining > 0
                      THEN top_buys \o Take(hold_signals, remaining)
                      ELSE top_buys
    IN  [rank \in DOMAIN top_stocks |->
            [rank |-> rank,
             stock |-> [symbol |-> top_stocks[rank].symbol,
                        sector |-> top_stocks[rank].sector,
                        change_percent |-> top_stocks[rank].change_percent,
                        signal |-> top_stocks[rank].signal,
                        confidence |-> top_stocks[rank].confidence,
                        past_6m_return |-> top_stocks[rank].past_6m_return,
                        volatility |-> top_stocks[rank].volatility],
             score |-> top_stocks[rank].score]]

\* AIService._get_top_recommendations, for a limit >= 0
_get_top_recommendations(all_signals, limit) ==
    LET buy_signals == SelectSeq(all_signals, LAMBDA sig : sig.signal = "BUY")
        hold_signals == SelectSeq(all_signals, LAMBDA sig : sig.signal = "HOLD")
        top_buys == Take(buy_signals, limit)
        remaining == limit - Len(top_buys)
        top_stocks == IF remaining > 0
                      THEN top_buys \o Take(hold_signals, remaining)
                      ELSE top_buys
    IN  [rank \in DOMAIN top_stocks |->
            [rank |-> rank,
             stock |-> [symbol |-> top_stocks[rank].symbol,
                        sector |-> top_stocks[rank].sector,
                        change_percent |-> top_stocks[rank].change_percent,
                        signal |-> top_stocks[rank].signal,
                        confidence |-> top_stocks[rank].confidence,
                        past_6m_return |-> top_stocks[rank].past_6m_return,
                        volatility |-> top_stocks[rank].volatility],
             score |-> top_stocks[rank].score]]

\* p.get("trend") == trend
has_trend(p, trend) == "trend" \in DOMAIN p /\ p.trend = trend

\* sum(1 for p in predictions if p.get("trend") == trend)
RECURSIVE count_trend(_, _)
count_trend(predictions, trend) ==
    IF predictions = <<>> THEN 0
    ELSE (IF has_trend(Head(predictions), trend) THEN 1 ELSE 0)
         + count_trend(Tail(predictions), trend)

\* Variant: a market is Negative when at least 60% of it is Bearish.
_calculate_overall_sentiment_by_bearish(predictions) ==
    IF predictions = <<>> THEN "Neutral"
    ELSE LET bullish_count == count_trend(predictions, "Bullish")
             bearish_count == count_trend(predictions, "Bearish")
             total == Len(predictions)
         IN  IF bullish_count * 100 >= 60 * total THEN "Positive"
             ELSE IF bearish_count * 100 >= 60 * total THEN "Negative"
             ELSE "Neutral"

\* AIService._calculate_overall_sentiment.  (bullish_count / total) * 100
\* compared with 60 and 40 in floating point decides as the exact fraction
\* does, so the comparison is made on bullish_count * 100 and 60 * total.
_calculate_overall_sentiment(predictions) ==
    IF predictions = <<>> THEN "Neutral"
    ELSE LET bullish_count == count_trend(predictions, "Bullish")
             bearish_count == count_trend(predictions, "Bearish")
             total == Len(predictions)
         IN  IF bullish_count * 100 >= 60 * total THEN "Positive"
             ELSE IF bullish_count * 100 <= 40 * total THEN "Negative"
             ELSE "Neutral"

\* AIService.analyze_market_with_stocks in a process whose sets iterate in
\* `order': the sector predictions of its first step and its result (the
\* timestamp is left out)
analyze_market_with_stocks(stock_data, transits_in, order) ==
    LET sector_influences == analyze_sector_influences(<<>>, transits_in, order)
        predictions == _get_ai_sector_predictions(sector_influences)
        all_stock_signals == _generate_stock_signals(stock_data, predictions)
    IN  [sector_predictions |-> predictions,
         top_recommendations |-> _get_top_recommendations(all_stock_signals, 10),
         sector_analysis |-> _create_sector_analysis(predictions,
                                                     all_stock_signals),
         all_stocks |-> all_stock_signals,
         overall_sentiment |-> _calculate_overall_sentiment(predictions)]

\* The pipeline is invoked twice on the same input; each invocation runs in
\* a process of its own hash seed (two workers, or a restart in between).
MaxTransits == 2
MaxInvocations == 2

TransitSamples ==
    [planet : {"Jupiter", "Saturn", "Mars"},
     sign : {"Cancer", "Capricorn", "Aries", "Libra"},
     motion : Motions]

StockSamples ==
    <<[symbol |-> "TCS", sector |-> "Technology", change_percent |-> <<1>>,
       past_6m_return |-> <<12>>, volatility |-> <<"Low">>],
      [symbol |-> "HDFCBANK", sector |-> "Banking", change_percent |-> <<-1>>,
       past_6m_return |-> <<5>>, volatility |-> <<"Medium">>],
      [symbol |-> "ITC", sector |-> "Tobacco", change_percent |-> <<>>,
       past_6m_return |-> <<-12>>, volatility |-> <<"High">>]>>

InitPipeline ==
    /\ InitAnalyze /\ InitPredict /\ InitTransits /\ InitRateLimiter
    /\ call \in [stock_data : {Take(StockSamples, n) : n \in 1..Len(StockSamples)},
                  transits : UNION {[1..n -> TransitSamples] : n \in 1..MaxTransits}]
    /\ ret = <<>>

InvokePipeline ==
    /\ Len(ret) < MaxInvocations
    /\ \E order \in HashOrders :
          ret' = Append(ret, analyze_market_with_stocks(call.stock_data,
                                                        call.transits, order))
    /\ UNCHANGED call
    /\ UNCHANGED OutsideEngine

SpecPipeline == InitPipeline /\ [][InvokePipeline]_vars

\* ------------------------------------------- the steps after the signals
\* Stocks on either side of the thresholds of the signal
StockChoices ==
    [symbol : {"TCS"}, sector : {"Technology", "Banking"},
     change_percent : {<<3>>, <<-1>>},
     past_6m_return : {<<25>>, <<5>>, <<-15>>},
     volatility : {<<"Low">>, <<"High">>}]

\* Signals as _calculate_signal makes them: three BUY, two HOLD, one SELL
SignalSamples ==
    {_calculate_signal(stock, [trend |-> "Neutral", confidence |-> 50]) :
        stock \in {st \in StockChoices :
                      st.sector = "Technology" /\ st.volatility = <<"Low">>}}

MaxSignals == 4
MaxLimit == 5

InitTopRecommendations ==
    /\ InitAnalyze /\ InitPredict /\ InitTransits /\ InitRateLimiter
    /\ call \in [all_signals : UNION {[1..n -> SignalSamples] : n \in 0..MaxSignals},
                  limit : 0..MaxLimit]
    /\ ret = None

ReturnTopRecommendations ==
    /\ ret = None
    /\ ret' = [recommendations |->
                  _get_top_recommendations(call.all_signals, call.limit)]
    /\ UNCHANGED call
    /\ UNCHANGED OutsideEngine

SpecTopRecommendations ==
    InitTopRecommendations /\ [][ReturnTopRecommendations]_vars

\* Steps 3 and 5 of analyze_market_with_stocks on any stocks and predictions
MaxStocks == 3

PredictionChoices ==
    {<<>>} \cup
    {<<[sector |-> "Technology", trend |-> trend, confidence |-> confidence]>> :
        trend \in {"Bullish", "Bearish"}, confidence \in {45, 65}}

InitRanking ==
    /\ InitAnalyze /\ InitPredict /\ InitTransits /\ InitRateLimiter
    /\ call \in [stock_data : UNION {[1..n -> StockChoices] : n \in 1..MaxStocks},
                  predictions : PredictionChoices]
    /\ ret = None

ReturnRanking ==
    /\ ret = None
    /\ LET all_stock_signals ==
              _generate_stock_signals(call.stock_data, call.predictions)
       IN  ret' = [all_stocks |-> all_stock_signals,
                   top_recommendations |->
                       _get_top_recommendations(all_stock_signals, 10)]
    /\ UNCHANGED call
    /\ UNCHANGED OutsideEngine

SpecRanking == InitRanking /\ [][ReturnRanking]_vars

\* _calculate_overall_sentiment on lists of predictions, with and without
\* a trend
MaxPredictions == 5

InitSentiment ==
    /\ InitAnalyze /\ InitPredict /\ InitTransits /\ InitRateLimiter
    /\ call \in [predictions :
                    UNION {[1..n -> {[sector |-> "Banking", trend |-> "Bullish"],
                                     [sector |-> "Banking", trend |-> "Bearish"],
                                     [sector |-> "Banking", trend |-> "Neutral"],
                                     [sector |-> "Banking"]}] :
                              n \in 0..MaxPredictions}]
    /\ ret = None

ReturnSentiment ==
    /\ ret = None
    /\ ret' = [overall_sentiment |-> _calculate_overall_sentiment(call.predictions)]
    /\ UNCHANGED call
    /\ UNCHANGED OutsideEngine

SpecSentiment == InitSentiment /\ [][ReturnSentiment]_vars

\* analyze_sector_influences on lists that mix transits of the table with
\* transits of a planet it does not know, or of no planet at all
MalformedTransits ==
    {[planet |-> "Pluto", sign |-> "Aries", motion |-> "Direct"],
     [sign |-> "Cancer"]}

WellFormedTransits ==
    {[planet |-> "Jupiter", sign |-> "Cancer", motion |-> "Direct"],
     [planet |-> "Mars", sign |-> "Aries", motion |-> "Direct"],
     [planet |-> "Saturn", sign |-> "Aries", motion |-> "Retrograde"],
     [planet |-> "Mars", sign |-> "Cancer"]}

InitSectorInfluences ==
    /\ InitAnalyze /\ InitPredict /\ InitTransits /\ InitRateLimiter
    /\ call \in [transits : UNION {[1..n -> WellFormedTransits \cup MalformedTransits] :
                                       n \in 0..MaxTransits},
                  order : HashOrders]
    /\ ret = None

ReturnSectorInfluences ==
    /\ ret = None
    /\ ret' = [sector_influences |->
                  analyze_sector_influences(<<>>, call.transits, call.order)]
    /\ UNCHANGED call
    /\ UNCHANGED OutsideEngine

SpecSectorInfluences == InitSectorInfluences /\ [][ReturnSectorInfluences]_vars

\* ================================================ alpha_vantage_service.py
\* Calls of wait_if_needed follow one another at once, after a pause just
\* under the period or after one just over it.
MaxCalls == 8
MaxClock == 125

Pauses == {RateLimitPeriod - 1, RateLimitPeriod + 1}

\* RateLimiter.wait_if_needed: time.sleep lets the clock advance by the
\* time asked for, and the call returns at the clock it leaves
wait_if_needed ==
    /\ Len(let_through) < MaxCalls
    /\ LET now == clock
           recent == SelectSeq(rate_limiter.call_times,
                               LAMBDA t : now - t < rate_limiter.period)
           sleep_time == rate_limiter.period - (now - recent[1]) + 1
           sleeps == Len(recent) >= rate_limiter.calls /\ sleep_time > 0
       IN  /\ clock' = IF sleeps THEN clock + sleep_time ELSE clock
           /\ rate_limiter' =
                 [rate_limiter EXCEPT
                     !.call_times = IF sleeps THEN <<now>> ELSE Append(recent, now)]
           /\ let_through' = Append(let_through, clock')
    /\ UNCHANGED OutsideRateLimiter

\* Time passes between two calls.
Pause(seconds) ==
    /\ clock + seconds <= MaxClock
    /\ clock' = clock + seconds
    /\ UNCHANGED <<rate_limiter, let_through>>
    /\ UNCHANGED OutsideRateLimiter

NextRateLimiter ==
    \/ wait_if_needed
    \/ \E seconds \in Pauses : Pause(seconds)

SpecRateLimiter == Init /\ [][NextRateLimiter]_vars

\* ------------------------------------------------------------------ claims
Returned == done # None
ReturnedOk == done # None /\ done.status = "ok"
CacheOf(d, endpoint_type) == CacheRows(cache, d, endpoint_type)
\* An archive row is a copy of a live row
CopyOf(a, p) ==
    /\ a.of = p.id
    /\ a.sector = p.sector
    /\ a.reason = p.reason
    /\ a.original_created_at = p.created_at
\* The steps of a request the claims name (the insertion of the new
\* predictions left out)
NamedSteps(steps) == SelectSeq(steps, LAMBDA x : x # "store")

\* C1: whatever the interleaving of the requests, a row that leaves the live
\* table has a copy in the archive, written before the row is deleted.
C1_DeletedRowsAreArchived ==
    [][\A p \in live \ live' : \E a \in archive : CopyOf(a, p)]_vars

\* C2 (as claimed): once a basic request without hard_refresh has completed
\* for a date and no hard refresh of the date has run since, a later basic
\* request without hard_refresh for the date is answered from the cache,
\* without any enrichment call, with the payload the first request stored.
C2_LaterRequestGetsFirstPayload ==
    (Returned /\ done.after.first # None)
        => /\ done.status = "ok"
           /\ done.steps = <<"hit">>
           /\ done.llm = 0
           /\ done.response = done.after.first

\* C2 (amended): ... is answered from the cache, without recomputation or
\* enrichment call, with the payload stored under the key: that of the
\* request that saved last, which is the first request unless a request
\* that raced with it on the miss saved after it.
C2_LaterRequestGetsStoredPayload ==
    (Returned /\ done.after.first # None)
        => /\ done.status = "ok"
           /\ done.steps = <<"hit">>
           /\ done.llm = 0
           /\ done.response = done.after.last

C2_Witness ==
    /\ ReturnedOk
    /\ done.after.first # None
    /\ done.steps = <<"hit">>
    /\ done.response = done.after.last
    /\ done.after.last # done.after.first

\* C3 (as claimed): a hard refresh that completes has archived, deleted the
\* live rows, recomputed, deleted the old cache entry if there was one, and
\* saved, in this order.
C3_DeleteBeforeRecompute ==
    (ReturnedOk /\ IsHard(done))
        => NamedSteps(done.steps) \in
              {<<"archive", "delete_live", "recompute", "save">>,
               <<"archive", "delete_live", "recompute", "delete_cache", "save">>}

\* C3 (amended): a hard refresh that completes has archived, recomputed,
\* deleted the live rows (and stored the new ones), deleted the old cache
\* entry if there was one, and saved, in this order.
C3_RecomputeBeforeDelete ==
    (ReturnedOk /\ IsHard(done))
        => /\ NamedSteps(done.steps) \in
                {<<"archive", "recompute", "delete_live", "save">>,
                 <<"archive", "recompute", "delete_live", "delete_cache", "save">>}
           /\ done.steps \in
                {<<"archive", "recompute", "delete_live", "store", "save">>,
                 <<"archive", "recompute", "delete_live", "store",
                   "delete_cache", "save">>}

C3_Witness ==
    /\ ReturnedOk
    /\ IsHard(done)
    /\ done.archived > 0
    /\ "delete_cache" \in {done.steps[i] : i \in DOMAIN done.steps}

\* C4: a hard refresh that fails after its archival leaves every archive row
\* it wrote in the archive.
C4_ArchiveSurvivesFailure ==
    (Returned /\ IsHard(done) /\ done.status # "ok")
        => Cardinality({a \in archive : a.by = done.id}) = done.archived

C4_Witness ==
    /\ Returned
    /\ IsHard(done)
    /\ done.status = "error"
    /\ done.at = "save_commit"
    /\ done.archived > 0
    /\ Cardinality({a \in archive : a.by = done.id}) = done.archived

RowsOf(id) == {p \in live : p.reason = id}

\* C6 (as claimed): when a hard refresh completes, the live table holds
\* exactly the predictions that request computed, whatever ran meanwhile.
C6_LiveIsExactlyTheNewRows ==
    (ReturnedOk /\ IsHard(done))
        => /\ live = RowsOf(done.id)
           /\ {p.sector : p \in live} = Sectors
           /\ {p.id : p \in live} \cap done.pre = {}

\* C6 (amended): when a hard refresh completes, the live table holds none of
\* the rows that were live when the request arrived; it holds exactly the
\* predictions that request computed if no other request was handled
\* meanwhile (a request that is, may have added rows or deleted the new ones).
C6_LiveHasNoOldRows ==
    (ReturnedOk /\ IsHard(done))
        => /\ {p.id : p \in live} \cap done.pre = {}
           /\ done.alone => /\ live = RowsOf(done.id)
                            /\ {p.sector : p \in live} = Sectors
                            /\ Cardinality(live) = Cardinality(Sectors)

C6_Witness ==
    /\ ReturnedOk
    /\ IsHard(done)
    /\ done.alone
    /\ done.pre # {}
    /\ live = RowsOf(done.id)
    /\ live # {}

C8_OneEntryPerKey ==
    \A a \in cache, b \in cache :
        (a.analysis_date = b.analysis_date /\ a.endpoint_type = b.endpoint_type)
            => a = b

C8_Witness ==
    /\ Returned
    /\ done.detail = "IntegrityError"
    /\ Cardinality(CacheOf(done.analysis_date, done.endpoint)) = 1

\* C9: of two requests without hard_refresh that race on a miss of one key,
\* each one that comes to save returns its own result, and leaves its
\* payload in the one entry of the key.
C9_RacersBothReturn ==
    (Returned /\ done.raced /\ done.at = "save_commit" /\ done.detail # "Exception")
        => /\ done.status = "ok"
           /\ done.response # None
           /\ \E row \in cache :
                 /\ CacheOf(done.analysis_date, done.endpoint) = {row}
                 /\ row.response_data.timestamp = isoformat(done.id)

\* C10: a request whose recomputation succeeded, and whose saving of the
\* cache entry then fails, still answers with the computed result.
C10_SaveFailureStillReturns ==
    (Returned /\ done.at = "save_commit")
        => done.status = "ok" /\ done.response # None

\* An enrichment call of the request's run raised
EnrichmentFailed(o) == \E i \in DOMAIN o.steps : o.steps[i] = "enrichment_failed"

\* C11: a request of whose recomputation an enrichment call fails returns an
\* error; the step leaves the live table and the cache as they were, no live
\* row holds a prediction of that run and no cache entry its payload.
C11_EnrichmentFailureEmitsNothing ==
    [][(done' # None /\ EnrichmentFailed(done'))
          => /\ done'.status = "error"
             /\ done'.response = None
             /\ live' = live
             /\ cache' = cache
             /\ \A p \in live' : p.reason # done'.id
             /\ \A row \in cache' :
                   row.response_data.timestamp # isoformat(done'.id)]_vars

C11_Witness ==
    /\ Returned
    /\ EnrichmentFailed(done)
    /\ done.status = "error"
    /\ done.llm = Cardinality(Sectors)
    /\ live # {}
    /\ CacheOf(done.analysis_date, done.endpoint) # {}

Saved(c, analysis_date, endpoint_type, response_data, nextId) ==
    save_analyze_cache(c, first(CacheRows(c, analysis_date, endpoint_type)),
                       analysis_date, endpoint_type, response_data, nextId)

\* C13: save_analyze_cache is an upsert.  A save that found an entry of the
\* key overwrites the payload of that row and touches no other row, a save
\* that found none adds one row with the payload; and saving the payload to
\* the key once more leaves the table as the first save left it: one entry
\* of the key, with that payload.
C13_SaveIsUpsert ==
    [][\A w \in Workers :
         (/\ req[w].pc = "save_commit" /\ req'[w].pc = "idle"
          /\ done' # None /\ done'.id = req[w].id /\ done'.status = "ok")
            => LET q == req[w]
                   payload == _serialize_datetime(done'.response)
               IN  /\ IF q.existing # None
                      THEN /\ {row.id : row \in cache'} = {row.id : row \in cache}
                           /\ \A row \in cache' :
                                 IF row.id = q.existing.id
                                 THEN /\ row.response_data = payload
                                      /\ row.analysis_date = q.analysis_date
                                      /\ row.endpoint_type = q.endpoint
                                 ELSE row \in cache
                      ELSE \E row \in cache' :
                              /\ row \notin cache
                              /\ cache' = cache \cup {row}
                              /\ row.analysis_date = q.analysis_date
                              /\ row.endpoint_type = q.endpoint
                              /\ row.response_data = payload
                   /\ Saved(cache', q.analysis_date, q.endpoint, done'.response,
                            MaxRequests + 1) = cache'
                   /\ \E row \in cache' :
                         /\ CacheRows(cache', q.analysis_date, q.endpoint) = {row}
                         /\ row.response_data = payload]_vars

C13_Witness ==
    /\ ReturnedOk
    /\ done.at = "save_commit"
    /\ \E row \in CacheOf(done.analysis_date, done.endpoint) :
          /\ row.id # done.id
          /\ row.response_data = _serialize_datetime(done.response)

\* C14: the prediction cache never holds two entries of one prediction_date,
\* also when two /predict requests for the date race on a miss.
C14_OnePredictionPerDate ==
    \A a \in prediction_cache, b \in prediction_cache :
        a.prediction_date = b.prediction_date => a = b

\* C15: whatever /transits requests run, with or without hard_refresh, one
\* after the other or interleaved, the transits table never holds two rows
\* of one (date, planet).
C15_OneTransitPerDatePlanet ==
    \A a \in transits, b \in transits :
        (a.date = b.date /\ a.planet = b.planet) => a = b

\* A request is about to commit rows of a date for which another request
\* has committed its rows since the DELETE
C15_Witness ==
    \E w \in Workers :
        LET q == transit_req[w]
        IN  /\ q.pc = "commit"
            /\ Cardinality(TransitRows(transits, q.target_date)) = Len(PLANETS)
            /\ TransitRows(transits, q.target_date) \cap q.deleted = {}
            /\ ~uq_transit_date_planet(transits \ q.deleted,
                    transit_records(q.calculated, q.target_date, q.id))

\* The influence type analyze_transit returned follows the rule of the claim,
\* `mixed' being the name of the mixed type
InfluenceTypeRule(mixed) ==
    LET planet_data == PLANET_MARKET_SIGNIFICATIONS[call.planet]
        exalted_direct == /\ call.sign = planet_data.exalted_in
                          /\ call.motion = "Direct"
        debilitated == call.sign = planet_data.debilitated_in
        retrograde == call.motion = "Retrograde"
    IN  /\ ret.influence_type = "Highly Positive" <=> exalted_direct
        /\ ret.influence_type = "Challenging" <=> debilitated
        /\ ret.influence_type = mixed
              <=> (retrograde /\ ~exalted_direct /\ ~debilitated)
        /\ ret.influence_type = "Positive"
              <=> (~exalted_direct /\ ~debilitated /\ ~retrograde)

\* C17 (as claimed): for every planet of the table, sign and motion, the
\* influence type is Highly Positive iff exalted and Direct, Challenging iff
\* debilitated whatever the motion, Mixed iff Retrograde and neither of the
\* former, Positive otherwise.
C17_InfluenceTypeMixed ==
    ret # None => InfluenceTypeRule("Mixed")

\* C17 (amended): ... the same rule, the third type being the string
\* "Mixed (Delays/Review)".
C17_InfluenceTypeMixedDelaysReview ==
    ret # None => InfluenceTypeRule("Mixed (Delays/Review)")

C17_Witness ==
    /\ ret # None
    /\ call.motion = "Retrograde"
    /\ call.sign = PLANET_MARKET_SIGNIFICATIONS[call.planet].exalted_in
    /\ ret.influence_type = "Mixed (Delays/Review)"

\* The indices of the influences of the call whose type is one of `types'
InfluencesOfType(types) ==
    {i \in DOMAIN call.influences :
        /\ "influence_type" \in DOMAIN call.influences[i]
        /\ call.influences[i].influence_type \in types}

\* C18: for a non-empty influence list the trend is Bullish when the
\* influences whose type contains Positive outnumber those whose type
\* contains Challenging, Bearish when they are fewer, Neutral when equal; the
\* confidence is Medium exactly when the counts differ by more than 1, Low
\* otherwise; an empty list gives Neutral with Low confidence.
C18_SectorPredictionRule ==
    ret # None =>
        LET positive == Cardinality(InfluencesOfType({"Positive", "Highly Positive"}))
            challenging == Cardinality(InfluencesOfType({"Challenging"}))
        IN  IF call.influences = <<>>
            THEN ret.trend = "Neutral" /\ ret.confidence = "Low"
            ELSE /\ positive > challenging => ret.trend = "Bullish"
                 /\ positive < challenging => ret.trend = "Bearish"
                 /\ positive = challenging => ret.trend = "Neutral"
                 /\ ret.confidence = "Medium"
                       <=> (positive > challenging + 1 \/ challenging > positive + 1)
                 /\ ret.confidence \in {"Medium", "Low"}

C18_Witness ==
    /\ ret # None
    /\ Cardinality(InfluencesOfType({"Highly Positive"})) = 1
    /\ Cardinality(InfluencesOfType({"Positive"})) = 0
    /\ Cardinality(InfluencesOfType({"Challenging"})) = 2
    /\ ret.trend = "Bearish"
    /\ ret.confidence = "Low"

\* The four adjustments of the claim, in hundredths of a point
TrendAdjustment ==
    CASE call.sector_pred.trend = "Bullish" -> 40 * call.sector_pred.confidence
      [] call.sector_pred.trend = "Bearish" -> 0 - 40 * call.sector_pred.confidence
      [] OTHER -> 0

ReturnAdjustment ==
    LET r == IF call.stock.past_6m_return = <<>> THEN 0
             ELSE call.stock.past_6m_return[1]
    IN  CASE r > 20 -> 3000
          [] r \in 11..20 -> 2000
          [] r \in 1..10 -> 1000
          [] r < -20 -> -3000
          [] r \in -20..-11 -> -2000
          [] r \in -10..0 -> -1000

DayChangeAdjustment ==
    LET c == IF call.stock.change_percent = <<>> THEN 0
             ELSE call.stock.change_percent[1]
    IN  CASE c > 2 -> 2000
          [] c \in 1..2 -> 1000
          [] c < -2 -> -2000
          [] c \in -2..-1 -> -1000
          [] c = 0 -> 0

VolatilityAdjustment ==
    CASE call.stock.volatility = <<"Low">> -> 1000
      [] call.stock.volatility = <<"High">> -> -1000
      [] OTHER -> 0

\* C19: the score is 50 plus the sum of the four adjustments (sector trend,
\* 6-month return ladder, day-change ladder, volatility), and is not clamped.
C19_ScoreIsSumOfAdjustments ==
    ret # None =>
        ret.score = 5000 + TrendAdjustment + ReturnAdjustment
                         + DayChangeAdjustment + VolatilityAdjustment

C19_Witness ==
    /\ ret # None
    /\ call.sector_pred.trend = "Bullish"
    /\ call.stock.past_6m_return = <<MaxReturn>>
    /\ call.stock.volatility = <<"Low">>
    /\ ret.score > 10000

\* C20: the signal is BUY exactly when the score is at least 70, SELL exactly
\* when it is at most 40, HOLD exactly when it lies strictly between.
C20_SignalThresholds ==
    ret # None =>
        /\ ret.signal = "BUY" <=> ret.score >= 7000
        /\ ret.signal = "SELL" <=> ret.score <= 4000
        /\ ret.signal = "HOLD" <=> (4000 < ret.score /\ ret.score < 7000)

C20_Witness ==
    /\ ret # None
    /\ ret.score = 7000
    /\ ret.signal = "BUY"

\* What the claim compares of a result: the sectors of the predictions in
\* their order with trend and confidence, and the scores of all_stocks
PredictionsOf(result) ==
    [i \in DOMAIN result.sector_predictions |->
        <<result.sector_predictions[i].sector,
          result.sector_predictions[i].trend,
          result.sector_predictions[i].confidence>>]

ScoresOf(result) ==
    [i \in DOMAIN result.all_stocks |->
        <<result.all_stocks[i].symbol, result.all_stocks[i].score>>]

\* C16: two invocations of the pipeline on the same transits and stocks give
\* the same sector predictions in the same order and the same all_stocks
\* scores, whatever the iteration order of the deduplicating set.
C16_PipelineIsOrderIndependent ==
    Len(ret) = MaxInvocations =>
        /\ PredictionsOf(ret[1]) = PredictionsOf(ret[2])
        /\ ScoresOf(ret[1]) = ScoresOf(ret[2])

\* The signals of the call that are `signal', in their order
SignalsOfCall(signal) ==
    SelectSeq(call.all_signals, LAMBDA sig : sig.signal = signal)

Min(a, b) == IF a < b THEN a ELSE b

C29_RecommendationsNonIncreasing ==
    ret # None =>
        \A i, j \in DOMAIN ret.top_recommendations :
            i < j => ret.top_recommendations[i].score >= ret.top_recommendations[j].score

C29_Witness ==
    /\ ret # None
    /\ Len(ret.top_recommendations) = 3
    /\ call.stock_data[1].past_6m_return = <<-15>>
    /\ ret.top_recommendations[1].stock.signal = "BUY"
    /\ ret.top_recommendations[2].stock.signal = "HOLD"
    /\ ret.top_recommendations[2].score > ret.top_recommendations[3].score

\* The share of Bullish predictions of the call, as count and total
BullishOfCall ==
    Cardinality({i \in DOMAIN call.predictions :
                    /\ "trend" \in DOMAIN call.predictions[i]
                    /\ call.predictions[i].trend = "Bullish"})

\* C30: the sentiment is Neutral for the empty list, otherwise Positive when
\* at least 60% of the predictions are Bullish, Negative when at most 40%
\* are, Neutral in between; the Bearish count plays no part.
C30_SentimentByBullishShare ==
    ret # None =>
        LET total == Len(call.predictions)
        IN  IF total = 0 THEN ret.overall_sentiment = "Neutral"
            ELSE /\ ret.overall_sentiment = "Positive"
                       <=> 5 * BullishOfCall >= 3 * total
                 /\ ret.overall_sentiment = "Negative"
                       <=> 5 * BullishOfCall <= 2 * total
                 /\ ret.overall_sentiment = "Neutral"
                       <=> (5 * BullishOfCall > 2 * total
                            /\ 5 * BullishOfCall < 3 * total)

C30_Witness ==
    /\ ret # None
    /\ Len(call.predictions) = 2
    /\ \A i \in DOMAIN call.predictions :
          "trend" \in DOMAIN call.predictions[i]
          /\ call.predictions[i].trend = "Neutral"
    /\ ret.overall_sentiment = "Negative"

\* The transits of the call whose planet the rule table knows
KnownTransitsOfCall ==
    SelectSeq(call.transits,
              LAMBDA t : "planet" \in DOMAIN t
                         /\ t.planet \in DOMAIN PLANET_MARKET_SIGNIFICATIONS)

\* C22: analyze_sector_influences returns, for a list holding transits of
\* planets absent from the rule table, the mapping it returns for the list
\* without them.
C22_UnknownPlanetsAreSkipped ==
    ret # None =>
        ret.sector_influences
            = analyze_sector_influences(<<>>, KnownTransitsOfCall, call.order)

C22_Witness ==
    /\ ret # None
    /\ Len(call.transits) = 2
    /\ call.transits[1] \in MalformedTransits
    /\ call.transits[2] \in WellFormedTransits
    /\ ret.sector_influences # <<>>

\* C25: at most 5 calls of wait_if_needed return within any window of 60
\* seconds (a window that holds the most returns can be taken to begin at
\* one of them).
C25_AtMostCallsPerPeriod ==
    \A i \in DOMAIN let_through :
        Cardinality({j \in DOMAIN let_through :
                        /\ let_through[j] >= let_through[i]
                        /\ let_through[j] < let_through[i] + RateLimitPeriod})
            <= RateLimitCalls

\* C23: over any sequence of hard refreshes of a date, failing ones
\* included, a live row is copied into the archive at most once for the
\* date: no two archive rows of one date stem from the same live row.
C23_ArchivedAtMostOncePerDate ==
    \A x, y \in archive :
        (x.of = y.of /\ x.archive_date = y.archive_date) => x = y

\* C24: every archive row's archive_date is the analysis date of the request
\* that created the live row it copies.
C24_ArchiveDateIsPredictionDate ==
    \A x \in archive : x.archive_date = x.for_date

\* C26: a request that aborts for want of transit data has left the live
\* table, the archive and the cache as they were: no row of any of them is
\* its own.
C26_UnavailableLeavesNoTrace ==
    (done # None /\ done.no_transits) =>
        /\ done.status = "unavailable"
        /\ done.archived = 0
        /\ \A x \in archive : x.by # done.id
        /\ \A p \in live : p.id \notin
               {RowsPerRequest * (done.id - 1) + k : k \in 1..RowsPerRequest}
        /\ \A row \in cache : row.id # done.id

\* The ids of the live rows request r stores
LiveIdsOf(r) == {RowsPerRequest * (r - 1) + k : k \in 1..RowsPerRequest}

\* The cache entries of other keys than (analysis_date, 'basic')
OtherEntries(c, analysis_date) ==
    {row \in c : ~(row.analysis_date = analysis_date
                   /\ row.endpoint_type = "basic")}

\* C27: no step of a hard refresh on the basic endpoint changes a cache
\* entry of another key than (date, 'basic'): the enhanced entry of the date
\* and the entries of other dates stay as they are.
C27_HardRefreshKeepsOtherEntries ==
    [][\A w \in Workers :
          (InFlight(w) /\ IsHard(req[w]) /\ req'[w].pc # req[w].pc) =>
              OtherEntries(cache', req[w].analysis_date)
                  = OtherEntries(cache, req[w].analysis_date)]_vars

C27_Witness ==
    /\ done # None
    /\ done.status = "ok"
    /\ done.hard_refresh
    /\ \E i \in DOMAIN done.steps : done.steps[i] = "delete_cache"
    /\ \E row \in cache :
          /\ row.endpoint_type = "enhanced"
          /\ row.analysis_date = done.analysis_date
          /\ LiveIdsOf(row.id) \subseteq done.pre
          /\ \A p \in live : p.id \notin LiveIdsOf(row.id)

\* A request answered from the cache
IsHit(o) == o # None /\ o.steps = <<"hit">>

====
